---- MODULE Spec2Model ----
(***************************************************************************)
(* Connect3 backend: the User directory, the connection quota and the      *)
(* FRIENDS_WITH edge relation kept in the graph store, and the request     *)
(* handlers that read and write them.  Every session.run(...) is one       *)
(* auto-commit round trip to the store; a handler is a sequence of round   *)
(* trips, and handlers of different requests (different workers sharing    *)
(* the store) interleave between round trips.                              *)
(***************************************************************************)
EXTENDS Integers, Sequences, FiniteSets, TLC

\* ------------------------------------------------------------------ bounds
MaxPhone == 2
NumProcs == 2
MaxNodes == 3
MaxRequests == 3
NumSeed == 5
MaxSender == 2
MaxSeqSender == 2
MaxSeededRequests == 4
MaxSeqRequests == 5
MaxEdgeCalls == 3
MaxQuotaCalls == 4
MaxRaceRequests == 3
NumGraphUsers == 4
MaxDegrees == 2

\* remaining_connections of a newly created User
InitialConnections == 3

Phones == 1..MaxPhone
Procs == 1..NumProcs
SeedPhones == 1..NumSeed
Senders == 1..MaxSender
SeqSenders == 1..MaxSeqSender
\* the seeded phone numbers and one that no User has
SeqReceivers == 1..(NumSeed + 1)
GraphUsers == 1..NumGraphUsers
\* the phone numbers of the Users of a drawn graph and one that no User has
GraphPhones == 1..(NumGraphUsers + 1)
Names == {"", "n"}
Hashes == {"", "h"}

VARIABLES
  nodes,    \* the User nodes of the store, in creation order; user_id = index
  edges,    \* the directed FRIENDS_WITH relationships, pairs of user_ids
  pc,       \* per request slot: the round trip its handler is about to make
  req,      \* per request slot: the handler's arguments and locals
  resp,     \* per request slot: the response of the handler, once it ended
  started,  \* number of requests accepted so far (also the clock of created_at)
  newEdgeBy,\* history: <<sender, receiver>> of each connect whose MERGE added an edge
  snap      \* history: the store as request `by` found it when it started with
            \* no other request in flight; `alone` while none has started since

vars == <<nodes, edges, pc, req, resp, started, newEdgeBy, snap>>

\* ------------------------------------------------------------------ values
\* Python's `a or b` on booleans
PyOr(a, b) == IF a THEN a ELSE b

\* Python's truthiness of a str
Truthy(s) == s # ""

NoReq == [op |-> "none", phone |-> 0, receiver |-> 0, name |-> "",
          hashed_password |-> "", query |-> "none", degrees |-> 0]

\* a response: its outcome, the UserInDb it carries (user), the number or
\* boolean (1/0) it carries (value), the UserConnections it carries (path),
\* the GraphResponse it carries (graph_nodes, graph_edges)
Pending == [outcome |-> "pending", user |-> <<>>, value |-> 0, path |-> <<>>,
            graph_nodes |-> {}, graph_edges |-> {}]

Response(o, u, v) == [Pending EXCEPT !.outcome = o, !.user = u, !.value = v]

\* MinimalUser(**dict(node)): the fields MinimalUser keeps of a node
MinimalUser(node) ==
  [user_id |-> node.user_id, name |-> node.name, phonenumber |-> node.phonenumber]

\* Python's bool as the number a response carries
AsValue(b) == IF b THEN 1 ELSE 0

\* ------------------------------------------------------------------ queries
\* MATCH (u:User {phonenumber: $phonenumber})
MatchUser(ns, phone) == {i \in DOMAIN ns : ns[i].phonenumber = phone}

\* the UserInDb that get_user_in_db builds from a node
FoundUser(node) == [node EXCEPT !.is_verified = PyOr(node.is_verified, TRUE)]

\* get_user_in_db: the possible results, None as <<>>; result.single() hands
\* back the first record of the stream, whose order the store does not fix
get_user_in_db(ns, phone) ==
  IF MatchUser(ns, phone) = {}
  THEN {<<>>}
  ELSE {<<FoundUser(ns[i])>> : i \in MatchUser(ns, phone)}

\* the CREATE (u:User {...}) query of create_user_in_db, with its params
CreateQuery(ns, name, phone, hashed_password, created_at, is_verified) ==
  Append(ns, [user_id |-> Len(ns) + 1,
              name |-> name,
              phonenumber |-> phone,
              hashed_password |-> hashed_password,
              created_at |-> created_at,
              remaining_connections |-> InitialConnections,
              is_verified |-> is_verified])

\* the MATCH ... SET u.name, u.hashed_password, u.is_verified query
SetQuery(ns, name, phone, hashed_password, is_verified) ==
  [i \in DOMAIN ns |->
     IF ns[i].phonenumber = phone
     THEN [ns[i] EXCEPT !.name = name,
                        !.hashed_password = hashed_password,
                        !.is_verified = is_verified]
     ELSE ns[i]]

\* is_verified = bool(name and hashed_password)
IsVerifiedInput(name, hashed_password) == Truthy(name) /\ Truthy(hashed_password)

\* the branch create_user_in_db takes on what get_user_in_db returned:
\* "AlreadyExists", "SET", "IncompleteUpgrade" or "CREATE"
UpsertBranch(existing, is_verified) ==
  IF existing # <<>> /\ existing[1].is_verified THEN "AlreadyExists"
  ELSE IF existing # <<>> /\ ~existing[1].is_verified /\ is_verified THEN "SET"
  ELSE IF existing # <<>> /\ ~existing[1].is_verified /\ ~is_verified
       THEN "IncompleteUpgrade"
  ELSE "CREATE"

\* rows of check_direct_connection's query: one per matched pair (u1, u2)
DirectRows(ns, phone1, phone2) ==
  MatchUser(ns, phone1) \X MatchUser(ns, phone2)

\* check_direct_connection with its lookup lost: never connected
check_direct_connection_blind(ns, es, phone1, phone2) == {FALSE}

\* check_direct_connection for phone1 # phone2: the possible answers.  Each row
\* holds r IS NOT NULL for OPTIONAL MATCH (u1)-[r:FRIENDS_WITH]->(u2); the
\* answer is the first record's isConnected, or False when there is no record
check_direct_connection(ns, es, phone1, phone2) ==
  IF DirectRows(ns, phone1, phone2) = {}
  THEN {FALSE}
  ELSE {(row \in es) : row \in DirectRows(ns, phone1, phone2)}

\* the query without its second MERGE
MergeQuery_oneway(ns, es, phone1, phone2) ==
  es \cup {<<row[1], row[2]>> : row \in DirectRows(ns, phone1, phone2)}

\* MATCH (u1), (u2) MERGE (u1)-[:FRIENDS_WITH]->(u2) MERGE (u2)-[:FRIENDS_WITH]->(u1)
MergeQuery(ns, es, phone1, phone2) ==
  es \cup {<<row[1], row[2]>> : row \in DirectRows(ns, phone1, phone2)}
     \cup {<<row[2], row[1]>> : row \in DirectRows(ns, phone1, phone2)}

\* the nodes one hop from node i along FRIENDS_WITH, in either direction:
\* the pattern (a)-[:FRIENDS_WITH]-(b) has no arrow
Neighbours(es, i) ==
  {e[2] : e \in {x \in es : x[1] = i}} \cup {e[1] : e \in {x \in es : x[2] = i}}

\* the node sequences one hop longer than those of `paths`, no node twice
GrowPaths(es, paths) ==
  UNION {{Append(path, n) :
            n \in Neighbours(es, path[Len(path)]) \
                    {path[k] : k \in 1..Len(path)}} : path \in paths}

\* breadth first from `paths`: the first generation that has paths ending at j
RECURSIVE ShortestFrom(_, _, _)
ShortestFrom(es, paths, j) ==
  IF paths = {} THEN {}
  ELSE IF {path \in paths : path[Len(path)] = j} # {}
       THEN {path \in paths : path[Len(path)] = j}
  ELSE ShortestFrom(es, GrowPaths(es, paths), j)

\* every generation's paths ending at j
RECURSIVE AnyFrom(_, _, _)
AnyFrom(es, paths, j) ==
  IF paths = {} THEN {}
  ELSE {path \in paths : path[Len(path)] = j}
         \cup AnyFrom(es, GrowPaths(es, paths), j)

\* the pattern without shortestPath: any path between the two nodes
shortestPath_any(es, i, j) == AnyFrom(es, {<<i>>}, j)

\* shortestPath((u1)-[:FRIENDS_WITH*]-(u2)) for two different nodes: nodes(path)
\* of the paths the store may hand back, one of the shortest; none if no path
shortestPath(es, i, j) == ShortestFrom(es, {<<i>>}, j)

\* check_connection looking at direct relationships only
check_connection_direct(ns, es, phone1, phone2) ==
  IF DirectRows(ns, phone1, phone2) = {}
  THEN {FALSE}
  ELSE {(row[2] \in Neighbours(es, row[1])) : row \in DirectRows(ns, phone1, phone2)}

\* check_connection for phone1 # phone2: the possible answers.  Each row of
\* MATCH (u1), (u2) holds p IS NOT NULL for the OPTIONAL MATCH of a shortest
\* path; the answer is the first record's, or False when there is no record
check_connection(ns, es, phone1, phone2) ==
  IF DirectRows(ns, phone1, phone2) = {}
  THEN {FALSE}
  ELSE {(shortestPath(es, row[1], row[2]) # {}) :
          row \in DirectRows(ns, phone1, phone2)}

\* UserConnections.from_nodes(nodes): MinimalUser of each node, in path order
from_nodes(ns, path) == [k \in 1..Len(path) |-> MinimalUser(ns[path[k]])]

\* the records of find_shortest_path's query: nodes(path) of one shortest path
\* per row of MATCH (u1), (u2) that has a path
PathRecords(ns, es, phone1, phone2) ==
  UNION {shortestPath(es, row[1], row[2]) :
           row \in {r \in DirectRows(ns, phone1, phone2) : r[1] # r[2]}}

\* the rows of MATCH (u1), (u2) in which u1 and u2 are the same node.  On such
\* a row shortestPath either fails the query (the store's default) or yields
\* no path (cypher.forbid_shortestpath_common_nodes=false)
CommonRows(ns, phone1, phone2) ==
  {r \in DirectRows(ns, phone1, phone2) : r[1] = r[2]}

\* find_shortest_path with OPTIONAL MATCH: a record also when there is no path
find_shortest_path_optional(ns, es, phone1, phone2) ==
  (IF CommonRows(ns, phone1, phone2) # {}
   THEN {Response("StoreError", <<>>, 0)} ELSE {})
  \cup (IF DirectRows(ns, phone1, phone2) = {}
        THEN {Response("NoPathFound", <<>>, 0)}
        ELSE IF PathRecords(ns, es, phone1, phone2) = {}
             THEN {[Response("ok", <<>>, 0) EXCEPT
                      !.path = <<MinimalUser(ns[row[1]])>>] :
                     row \in DirectRows(ns, phone1, phone2)}
        ELSE {[Response("ok", <<>>, 0) EXCEPT !.path = from_nodes(ns, path)] :
                path \in PathRecords(ns, es, phone1, phone2)})

\* find_shortest_path as GET /users/{phonenumber}/shortest-path answers it:
\* the possible responses.  record = result.single(); a record gives the
\* UserConnections; no record raises ValueError, which the route turns into
\* 404 "Path Not Found"; an error of the store is caught by nobody
find_shortest_path(ns, es, phone1, phone2) ==
  (IF CommonRows(ns, phone1, phone2) # {}
   THEN {Response("StoreError", <<>>, 0)} ELSE {})
  \cup (IF PathRecords(ns, es, phone1, phone2) = {}
        THEN {Response("NoPathFound", <<>>, 0)}
        ELSE {[Response("ok", <<>>, 0) EXCEPT !.path = from_nodes(ns, path)] :
                path \in PathRecords(ns, es, phone1, phone2)})

\* the end node of a path that starts at node `start` and takes `steps`
PathEnd(start, steps) ==
  IF steps = <<>> THEN start ELSE steps[Len(steps)].to

\* the paths one relationship longer than those of `paths`: a relationship at
\* the end node, followed in either direction, and not already on the path
\* (a path of a Cypher pattern never repeats a relationship)
GrowTrails(es, start, paths) ==
  UNION {{Append(steps, [rel |-> r,
                         to |-> IF r[1] = PathEnd(start, steps)
                                THEN r[2] ELSE r[1]]) :
            r \in {x \in es : /\ PathEnd(start, steps) \in {x[1], x[2]}
                              /\ \A k \in 1..Len(steps) : steps[k].rel # x}} :
         steps \in paths}

\* the paths of exactly k relationships from node `start`
RECURSIVE TrailsOfLen(_, _, _)
TrailsOfLen(es, start, k) ==
  IF k = 0 THEN {<<>>} ELSE GrowTrails(es, start, TrailsOfLen(es, start, k - 1))

\* the rows of MATCH path = (user {phonenumber: $phone})-[:FRIENDS_WITH*1..d]-(other)
GraphPaths(ns, es, phone, degrees) ==
  UNION {{[start |-> i, steps |-> steps] :
            steps \in UNION {TrailsOfLen(es, i, k) : k \in 1..degrees}} :
         i \in MatchUser(ns, phone)}

\* get_user_graph's nodes_dict: user_id -> MinimalUser of every node on a path
nodes_dict(ns, paths) ==
  [id \in UNION {{ns[path.start].user_id}
                   \cup {ns[path.steps[k].to].user_id : k \in 1..Len(path.steps)} :
                 path \in paths}
     |-> MinimalUser(ns[CHOOSE i \in DOMAIN ns : ns[i].user_id = id])]

\* get_user_graph's edges_set: (source_id, target_id) of every relationship on
\* a path, source the relationship's start node and target its end node
edges_set(ns, paths) ==
  UNION {{<<ns[path.steps[k].rel[1]].user_id, ns[path.steps[k].rel[2]].user_id>> :
            k \in 1..Len(path.steps)} : path \in paths}

\* get_user_graph for degrees >= 1: GraphResponse(nodes = the values of
\* nodes_dict, edges = a GraphEdge per entry of edges_set)
get_user_graph(ns, es, phone, degrees) ==
  [Response("ok", <<>>, 0) EXCEPT
     !.graph_nodes = {nodes_dict(ns, GraphPaths(ns, es, phone, degrees))[id] :
                        id \in DOMAIN nodes_dict(ns, GraphPaths(ns, es, phone, degrees))},
     !.graph_edges = edges_set(ns, GraphPaths(ns, es, phone, degrees))]

\* get_num_of_connections: <<n>> for remaining_connections n, <<>> for the
\* ValueError class it returns (does not raise) when the user is not found
get_num_of_connections(ns, phone) ==
  {IF u = <<>> THEN <<>> ELSE <<u[1].remaining_connections>> :
     u \in get_user_in_db(ns, phone)}

\* the decrement without its {phonenumber: $phone} filter
DecrementQuery_unfiltered(ns, phone) ==
  [i \in DOMAIN ns |-> [ns[i] EXCEPT !.remaining_connections = @ - 1]]

\* MATCH (u:User {phonenumber: $phone}) SET u.remaining_connections = ... - 1
DecrementQuery(ns, phone) ==
  [i \in DOMAIN ns |->
     IF ns[i].phonenumber = phone
     THEN [ns[i] EXCEPT !.remaining_connections = @ - 1]
     ELSE ns[i]]

\* the guard with < for <=
QuotaSpent_strict(current_count) == current_count < 0

\* the guard of reduce_connection_count and of the route: current_count <= 0
QuotaSpent(current_count) == current_count <= 0

\* ------------------------------------------------------------------ requests
Quiet == \A q \in Procs : pc[q] = "idle"

\* the history kept when request slot p accepts a request
Snapshot(p) ==
  IF Quiet
  THEN [nodes |-> nodes, edges |-> edges, alone |-> TRUE, by |-> p]
  ELSE [snap EXCEPT !.alone = FALSE]

\* a handler is entered: its slot leaves "idle"
Begin(p, at, r) ==
  /\ pc[p] = "idle"
  /\ pc' = [pc EXCEPT ![p] = at]
  /\ req' = [req EXCEPT ![p] = r]
  /\ resp' = [resp EXCEPT ![p] = Pending]
  /\ started' = started + 1
  /\ snap' = Snapshot(p)

\* a handler ends with response r
Finish(p, r) ==
  /\ pc' = [pc EXCEPT ![p] = "idle"]
  /\ resp' = [resp EXCEPT ![p] = r]

\* a handler goes on to its next round trip
Goto(p, at) ==
  /\ pc' = [pc EXCEPT ![p] = at]
  /\ resp' = resp

\* POST /users/ : create_user -> create_user_in_db(user), name and
\* hashed_password normalised (absent -> "")
StartCreateUser(p, phone, name, hashed_password) ==
  /\ Begin(p, "u_read", [NoReq EXCEPT !.op = "create_user", !.phone = phone,
                                     !.name = name,
                                     !.hashed_password = hashed_password])
  /\ UNCHANGED <<nodes, edges, newEdgeBy>>

\* POST /auth/signup : signup_user_service(user); the password is hashed, and
\* a hash is never empty
StartSignup(p, phone, name) ==
  /\ Begin(p, "s_check", [NoReq EXCEPT !.op = "signup", !.phone = phone,
                                      !.name = name, !.hashed_password = "h"])
  /\ UNCHANGED <<nodes, edges, newEdgeBy>>

\* signup_user_service: existing_user = get_user_in_db(...); 400 if it exists
SignupCheck(p) ==
  /\ pc[p] = "s_check"
  /\ \E existing \in get_user_in_db(nodes, req[p].phone) :
       IF existing # <<>>
       THEN Finish(p, Response("PhoneInUse", <<>>, 0))
       ELSE Goto(p, "u_read")
  /\ UNCHANGED <<nodes, edges, req, started, newEdgeBy, snap>>

\* create_user_in_db: existing_user = get_user_in_db(...) and the branch on it
UpsertRead(p) ==
  /\ pc[p] = "u_read"
  /\ \E existing \in get_user_in_db(nodes, req[p].phone) :
       LET branch == UpsertBranch(existing,
                       IsVerifiedInput(req[p].name, req[p].hashed_password))
       IN IF branch \in {"AlreadyExists", "IncompleteUpgrade"}
          THEN Finish(p, Response(branch, <<>>, 0)) /\ req' = req
          ELSE Goto(p, "u_run") /\ req' = [req EXCEPT ![p].query = branch]
  /\ UNCHANGED <<nodes, edges, started, newEdgeBy, snap>>

\* create_user_in_db: session.run(query, **params), record = result.single(),
\* and the UserInDb built from the returned node
\* (the store is capped at MaxNodes nodes: a CREATE waits while it is full)
UpsertRun(p) ==
  /\ pc[p] = "u_run"
  /\ LET r == req[p]
         v == IsVerifiedInput(r.name, r.hashed_password)
     IN IF r.query = "CREATE"
        THEN /\ Len(nodes) < MaxNodes
             /\ nodes' = CreateQuery(nodes, r.name, r.phone, r.hashed_password,
                                     started, v)
             /\ Finish(p, Response("ok", <<nodes'[Len(nodes')]>>, 0))
        ELSE /\ nodes' = SetQuery(nodes, r.name, r.phone, r.hashed_password, v)
             /\ IF MatchUser(nodes, r.phone) = {}
                THEN Finish(p, Response("Failed", <<>>, 0))
                ELSE \E i \in MatchUser(nodes, r.phone) :
                       Finish(p, Response("ok", <<nodes'[i]>>, 0))
  /\ UNCHANGED <<edges, req, started, newEdgeBy, snap>>

\* GET /users/{phonenumber} : get_user_in_db, 404 when absent
Find(p, phone) ==
  /\ pc[p] = "idle"
  /\ req' = [req EXCEPT ![p] = [NoReq EXCEPT !.op = "find", !.phone = phone]]
  /\ \E u \in get_user_in_db(nodes, phone) :
       resp' = [resp EXCEPT ![p] =
                  Response(IF u = <<>> THEN "absent" ELSE "found", u, 0)]
  /\ started' = started + 1
  /\ snap' = Snapshot(p)
  /\ UNCHANGED <<nodes, edges, pc, newEdgeBy>>

\* POST /users/connect by the user the token names
StartConnect(p, sender, receiver) ==
  /\ Begin(p, "c_auth", [NoReq EXCEPT !.op = "connect", !.phone = sender,
                                     !.receiver = receiver])
  /\ UNCHANGED <<nodes, edges, newEdgeBy>>

\* get_current_user: 401 when the token's phone number has no User
ConnectAuth(p) ==
  /\ pc[p] = "c_auth"
  /\ \E user \in get_user_in_db(nodes, req[p].phone) :
       IF user = <<>>
       THEN Finish(p, Response("Unauthorized", <<>>, 0))
       ELSE Goto(p, "c_quota")
  /\ UNCHANGED <<nodes, edges, req, started, newEdgeBy, snap>>

\* the route paying for the connection as soon as the quota check passes
ConnectQuota_eager(p) ==
  /\ pc[p] = "c_quota"
  /\ \E n \in get_num_of_connections(nodes, req[p].phone) :
       IF n = <<>>
       THEN Finish(p, Response("InternalError", <<>>, 0)) /\ nodes' = nodes
       ELSE IF QuotaSpent(n[1])
            THEN Finish(p, Response("QuotaExhausted", <<>>, 0)) /\ nodes' = nodes
       ELSE Goto(p, "c_recv") /\ nodes' = DecrementQuery(nodes, req[p].phone)
  /\ UNCHANGED <<edges, req, started, newEdgeBy, snap>>

\* remaining_connections = get_num_of_connections(...); 405 if <= 0.  The
\* ValueError class compared with 0 is a TypeError nobody catches
ConnectQuota(p) ==
  /\ pc[p] = "c_quota"
  /\ \E n \in get_num_of_connections(nodes, req[p].phone) :
       IF n = <<>> THEN Finish(p, Response("InternalError", <<>>, 0))
       ELSE IF QuotaSpent(n[1])
            THEN Finish(p, Response("QuotaExhausted", <<>>, 0))
       ELSE Goto(p, "c_recv")
  /\ UNCHANGED <<nodes, edges, req, started, newEdgeBy, snap>>

\* receiver_user = get_user_in_db(receiver); 400 if not found
ConnectReceiver(p) ==
  /\ pc[p] = "c_recv"
  /\ \E user \in get_user_in_db(nodes, req[p].receiver) :
       IF user = <<>>
       THEN Finish(p, Response("NotFound", <<>>, 0))
       ELSE Goto(p, "c_direct")
  /\ UNCHANGED <<nodes, edges, req, started, newEdgeBy, snap>>

\* check_direct_connection(current_user, receiver): ValueError for equal
\* phone numbers, which the route turns into a 500; 400 if connected
ConnectDirect(p) ==
  /\ pc[p] = "c_direct"
  /\ IF req[p].phone = req[p].receiver
     THEN Finish(p, Response("ServerError", <<>>, 0))
     ELSE \E connected \in check_direct_connection(nodes, edges, req[p].phone,
                                                   req[p].receiver) :
            IF connected
            THEN Finish(p, Response("AlreadyConnected", <<>>, 0))
            ELSE Goto(p, "cc_direct")
  /\ UNCHANGED <<nodes, edges, req, started, newEdgeBy, snap>>

\* a call of create_connection(user1, user2) on its own
StartCreateConnection(p, phone1, phone2) ==
  /\ Begin(p, "cc_direct", [NoReq EXCEPT !.op = "create_connection",
                                        !.phone = phone1, !.receiver = phone2])
  /\ UNCHANGED <<nodes, edges, newEdgeBy>>

\* a call of reduce_connection_count(user1) on its own
StartDecrement(p, phone) ==
  /\ Begin(p, "r_read", [NoReq EXCEPT !.op = "decrement", !.phone = phone])
  /\ UNCHANGED <<nodes, edges, newEdgeBy>>

\* what the caller of create_connection or reduce_connection_count sees when
\* it raises: the route catches every Exception and returns (not raises) an
\* HTTPException
Raised(p, kind) ==
  IF req[p].op = "connect"
  THEN Response("ReturnedError", <<>>, 0)
  ELSE Response(kind, <<>>, 0)

\* the HTTP status of an answer of POST /users/connect: the status_code of the
\* HTTPException raised, the route's own 201 for whatever it returns
StatusOf(outcome) ==
  CASE outcome = "Unauthorized" -> 401
    [] outcome = "QuotaExhausted" -> 405
    [] outcome \in {"NotFound", "AlreadyConnected"} -> 400
    [] outcome \in {"ServerError", "InternalError"} -> 500
    [] OTHER -> 201

\* create_connection raising when the two users are already connected
Returned_strict(p, created) ==
  IF req[p].op = "connect"
  THEN Goto(p, "r_read")
  ELSE Finish(p, Response(IF created THEN "ok" ELSE "AlreadyConnected", <<>>,
                          AsValue(created)))

\* create_connection returns whether it made the connection: the route goes
\* on to reduce_connection_count, a caller of its own gets the boolean
Returned(p, created) ==
  IF req[p].op = "connect"
  THEN Goto(p, "r_read")
  ELSE Finish(p, Response("ok", <<>>, AsValue(created)))

\* create_connection: ValueError for equal phone numbers, then its own
\* check_direct_connection
CreateConnectionCheck(p) ==
  /\ pc[p] = "cc_direct"
  /\ IF req[p].phone = req[p].receiver
     THEN Finish(p, Raised(p, "InvalidArgument"))
     ELSE \E connected \in check_direct_connection(nodes, edges, req[p].phone,
                                                   req[p].receiver) :
            IF connected THEN Returned(p, FALSE) ELSE Goto(p, "cc_merge")
  /\ UNCHANGED <<nodes, edges, req, started, newEdgeBy, snap>>

\* create_connection: the MERGE query
CreateConnectionMerge(p) ==
  /\ pc[p] = "cc_merge"
  /\ edges' = MergeQuery(nodes, edges, req[p].phone, req[p].receiver)
  /\ newEdgeBy' = IF edges' # edges
                  THEN newEdgeBy \cup {<<req[p].phone, req[p].receiver>>}
                  ELSE newEdgeBy
  /\ Returned(p, TRUE)
  /\ UNCHANGED <<nodes, req, started, snap>>

\* a read whose MATCH is a MERGE: it creates the user it does not find
Answer_merging(p, r, response) ==
  /\ pc[p] = "idle"
  /\ req' = [req EXCEPT ![p] = r]
  /\ resp' = [resp EXCEPT ![p] = response]
  /\ started' = started + 1
  /\ snap' = Snapshot(p)
  /\ nodes' = IF MatchUser(nodes, r.phone) = {}
              THEN CreateQuery(nodes, "", r.phone, "", started, FALSE)
              ELSE nodes
  /\ UNCHANGED <<edges, pc, newEdgeBy>>

\* a read answered in one round trip: request r gets `response`
Answer(p, r, response) ==
  /\ pc[p] = "idle"
  /\ req' = [req EXCEPT ![p] = r]
  /\ resp' = [resp EXCEPT ![p] = response]
  /\ started' = started + 1
  /\ snap' = Snapshot(p)
  /\ UNCHANGED <<nodes, edges, pc, newEdgeBy>>

\* a call of get_num_of_connections(user1): the user's remaining_connections,
\* or the ValueError class, returned like a value, when there is no user
Remaining(p, phone) ==
  \E n \in get_num_of_connections(nodes, phone) :
    Answer(p, [NoReq EXCEPT !.op = "remaining", !.phone = phone],
           IF n = <<>>
           THEN Response("ReturnedValueError", <<>>, 0)
           ELSE Response("ok", <<>>, n[1]))

\* a call of check_direct_connection(user1, user2): ValueError for equal
\* phone numbers
Direct(p, phone1, phone2) ==
  \E connected \in check_direct_connection(nodes, edges, phone1, phone2) :
    Answer(p, [NoReq EXCEPT !.op = "direct", !.phone = phone1,
                            !.receiver = phone2],
           IF phone1 = phone2
           THEN Response("InvalidArgument", <<>>, 0)
           ELSE Response("ok", <<>>, AsValue(connected)))

\* a call of check_connection(user1, user2): ValueError for equal phone numbers
Reachable(p, phone1, phone2) ==
  \E connected \in check_connection(nodes, edges, phone1, phone2) :
    Answer(p, [NoReq EXCEPT !.op = "reachable", !.phone = phone1,
                            !.receiver = phone2],
           IF phone1 = phone2
           THEN Response("InvalidArgument", <<>>, 0)
           ELSE Response("ok", <<>>, AsValue(connected)))

\* GET /users/{phonenumber}/shortest-path : find_shortest_path(user1, user2)
ShortestPath(p, phone1, phone2) ==
  \E response \in find_shortest_path(nodes, edges, phone1, phone2) :
    Answer(p, [NoReq EXCEPT !.op = "shortest_path", !.phone = phone1,
                            !.receiver = phone2], response)

\* GET /users/graph : get_user_graph(user1, degrees); ValueError for
\* degrees < 1, which the route turns into a 500 like every Exception
EgoNetwork(p, phone, degrees) ==
  Answer(p, [NoReq EXCEPT !.op = "ego_network", !.phone = phone,
                          !.degrees = degrees],
         IF degrees < 1
         THEN Response("ServerError", <<>>, 0)
         ELSE get_user_graph(nodes, edges, phone, degrees))

\* reduce_connection_count: current_count = get_num_of_connections(...);
\* raise ValueError if current_count <= 0
ReduceRead(p) ==
  /\ pc[p] = "r_read"
  /\ \E n \in get_num_of_connections(nodes, req[p].phone) :
       IF n = <<>> THEN Finish(p, Raised(p, "TypeError"))
       ELSE IF QuotaSpent(n[1])
            THEN Finish(p, Raised(p, "QuotaExhausted"))
       ELSE Goto(p, "r_write")
  /\ UNCHANGED <<nodes, edges, req, started, newEdgeBy, snap>>

\* reduce_connection_count: the SET query and update_record["updated_rc"]
ReduceWrite(p) ==
  /\ pc[p] = "r_write"
  /\ nodes' = DecrementQuery(nodes, req[p].phone)
  /\ IF MatchUser(nodes, req[p].phone) = {}
     THEN Finish(p, Raised(p, "TypeError"))
     ELSE \E i \in MatchUser(nodes, req[p].phone) :
            Finish(p, Response("ok", <<>>, nodes'[i].remaining_connections))
  /\ UNCHANGED <<edges, req, started, newEdgeBy, snap>>

\* ------------------------------------------------------------------ specifications
Init ==
  /\ nodes = <<>>
  /\ edges = {}
  /\ pc = [p \in Procs |-> "idle"]
  /\ req = [p \in Procs |-> NoReq]
  /\ resp = [p \in Procs |-> Pending]
  /\ started = 0
  /\ newEdgeBy = {}
  /\ snap = [nodes |-> <<>>, edges |-> {}, alone |-> FALSE, by |-> 0]

\* the handlers' round trips, for the request in slot p
Step(p) ==
  \/ SignupCheck(p)
  \/ UpsertRead(p)
  \/ UpsertRun(p)
  \/ ConnectAuth(p)
  \/ ConnectQuota(p)
  \/ ConnectReceiver(p)
  \/ ConnectDirect(p)
  \/ CreateConnectionCheck(p)
  \/ CreateConnectionMerge(p)
  \/ ReduceRead(p)
  \/ ReduceWrite(p)

Next ==
  \E p \in Procs :
    \/ /\ started < MaxRequests
       /\ \/ \E ph \in Phones, n \in Names, h \in Hashes : StartCreateUser(p, ph, n, h)
          \/ \E ph \in Phones, n \in Names : StartSignup(p, ph, n)
          \/ \E ph \in Phones : Find(p, ph)
          \/ \E s \in Phones, r \in Phones : StartConnect(p, s, r)
          \/ \E ph \in Phones : StartDecrement(p, ph)
          \/ \E a \in Phones, b \in Phones : Direct(p, a, b)
          \/ \E a \in Phones, b \in Phones : Reachable(p, a, b)
          \/ \E a \in Phones, b \in Phones : ShortestPath(p, a, b)
    \/ Step(p)

Spec == Init /\ [][Next]_vars

\* The store after NumSeed sign-ups, made one after the other, of distinct
\* phone numbers with a name and a password: the connection handlers start
\* from it
SeedNodes ==
  [i \in SeedPhones |->
     [user_id |-> i, name |-> "n", phonenumber |-> i, hashed_password |-> "h",
      created_at |-> 0, remaining_connections |-> InitialConnections,
      is_verified |-> TRUE]]

InitSeeded ==
  /\ nodes = SeedNodes
  /\ edges = {}
  /\ pc = [p \in Procs |-> "idle"]
  /\ req = [p \in Procs |-> NoReq]
  /\ resp = [p \in Procs |-> Pending]
  /\ started = 0
  /\ newEdgeBy = {}
  /\ snap = [nodes |-> SeedNodes, edges |-> {}, alone |-> FALSE, by |-> 0]

\* the round trips of the connect route and of reduce_connection_count
ConnectStep(p) ==
  \/ ConnectAuth(p)
  \/ ConnectQuota(p)
  \/ ConnectReceiver(p)
  \/ ConnectDirect(p)
  \/ CreateConnectionCheck(p)
  \/ CreateConnectionMerge(p)
  \/ ReduceRead(p)
  \/ ReduceWrite(p)

\* connect and decrement requests running concurrently
NextSeeded ==
  \E p \in Procs :
    \/ /\ started < MaxSeededRequests
       /\ \/ \E s \in Senders, r \in SeedPhones : StartConnect(p, s, r)
          \/ \E s \in Senders : StartDecrement(p, s)
    \/ ConnectStep(p)

SpecSeeded == InitSeeded /\ [][NextSeeded]_vars

\* connect requests, and nothing else, running concurrently
NextRace ==
  \E p \in Procs :
    \/ /\ started < MaxRaceRequests
       /\ \E s \in Senders, r \in SeedPhones : StartConnect(p, s, r)
    \/ ConnectStep(p)

SpecRace == InitSeeded /\ [][NextRace]_vars

\* connect requests running one at a time
NextSeq ==
  \/ /\ Quiet
     /\ started < MaxSeqRequests
     /\ \E s \in SeqSenders, r \in SeqReceivers : StartConnect(1, s, r)
  \/ ConnectStep(1)

SpecSeq == InitSeeded /\ [][NextSeq]_vars

\* calls of create_connection made one at a time
NextEdge ==
  \/ /\ Quiet
     /\ started < MaxEdgeCalls
     /\ \E a \in SeedPhones, b \in SeedPhones : StartCreateConnection(1, a, b)
  \/ CreateConnectionCheck(1)
  \/ CreateConnectionMerge(1)

SpecEdge == InitSeeded /\ [][NextEdge]_vars

\* reads and decrements of the quota and connects, one at a time, also for a
\* phone number that no User has
NextQuota ==
  \/ /\ Quiet
     /\ started < MaxQuotaCalls
     /\ \/ \E ph \in SeqReceivers : StartDecrement(1, ph)
        \/ \E ph \in SeqReceivers : Remaining(1, ph)
        \/ \E s \in SeqReceivers, r \in SeqSenders : StartConnect(1, s, r)
  \/ ConnectStep(1)

SpecQuota == InitSeeded /\ [][NextQuota]_vars

\* the connections a graph is drawn from: the lower phone number initiates
GraphPairs == {q \in GraphUsers \X GraphUsers : q[1] < q[2]}

\* the Users after the connects of `initiated`, each paid by its initiator
GraphNodes(initiated) ==
  [i \in GraphUsers |->
     [user_id |-> i, name |-> "n", phonenumber |-> i, hashed_password |-> "h",
      created_at |-> 0,
      remaining_connections |->
        InitialConnections - Cardinality({q \in initiated : q[1] = i}),
      is_verified |-> TRUE]]

\* a store that sign-ups and connects made one after the other leave behind:
\* NumGraphUsers verified Users and the two relationships of every connect
InitGraph ==
  \E initiated \in SUBSET GraphPairs :
    /\ \A i \in GraphUsers :
         Cardinality({q \in initiated : q[1] = i}) <= InitialConnections
    /\ nodes = GraphNodes(initiated)
    /\ edges = initiated \cup {<<q[2], q[1]>> : q \in initiated}
    /\ pc = [p \in Procs |-> "idle"]
    /\ req = [p \in Procs |-> NoReq]
    /\ resp = [p \in Procs |-> Pending]
    /\ started = 0
    /\ newEdgeBy = initiated
    /\ snap = [nodes |-> nodes, edges |-> edges, alone |-> FALSE, by |-> 0]

\* one read of the drawn store
NextGraph ==
  /\ started = 0
  /\ \/ \E a \in GraphPhones, b \in GraphPhones : Direct(1, a, b)
     \/ \E a \in GraphPhones, b \in GraphPhones : Reachable(1, a, b)
     \/ \E a \in GraphPhones, b \in GraphPhones : ShortestPath(1, a, b)
     \/ \E c \in GraphPhones, d \in 0..MaxDegrees : EgoNetwork(1, c, d)
     \/ \E ph \in GraphPhones : Find(1, ph)
     \/ \E ph \in GraphPhones : Remaining(1, ph)

SpecGraph == InitGraph /\ [][NextGraph]_vars

\* ------------------------------------------------------------------ claims
\* the requests that ran on their own from the store kept in snap and ended
EndedAlone(p, op) ==
  /\ pc[p] = "idle"
  /\ req[p].op = op
  /\ resp[p].outcome # "pending"
  /\ snap.alone
  /\ snap.by = p

\* the remaining_connections stored for a phone number (one value per node)
Quotas(ns, phone) == {ns[i].remaining_connections : i \in MatchUser(ns, phone)}

\* the receivers of the connects of `sender` that added an edge
Initiated(sender) == {pair[2] : pair \in {q \in newEdgeBy : q[1] = sender}}

\* C1: every User's stored remaining_connections is >= 0, whatever the
\* interleaving of connect and decrement requests
C1_QuotaNeverNegative ==
  \A i \in DOMAIN nodes : nodes[i].remaining_connections >= 0

\* C2: the connects of one sender that add a new edge never number more than
\* the 3 connections the sender was created with
C2_QuotaNeverOverCommitted ==
  \A s \in SeedPhones : Cardinality(Initiated(s)) <= InitialConnections

\* C3: at most one User node per phone number, also under concurrent upserts
C3_OneNodePerIdentity ==
  \A i, j \in DOMAIN nodes :
    nodes[i].phonenumber = nodes[j].phonenumber => i = j

\* C4: upsert lifecycle.  An upsert with empty name/password on an absent
\* identity creates an unverified placeholder; an upsert with name and
\* password on the unverified placeholder of an identity succeeds, updates it
\* in place, and returns it verified under the same user_id; an upsert with
\* name and password on the verified record of an identity fails AlreadyExists
C4_UpsertLifecycle ==
  \A p \in Procs :
    EndedAlone(p, "create_user") =>
      LET r == req[p]
          before == snap.nodes
          m == MatchUser(before, r.phone)
          full == IsVerifiedInput(r.name, r.hashed_password)
      IN /\ (m = {} /\ ~full) =>
              /\ resp[p].outcome = "ok"
              /\ ~resp[p].user[1].is_verified
         /\ \A i \in m :
              (m = {i} /\ full /\ ~before[i].is_verified) =>
                /\ resp[p].outcome = "ok"
                /\ resp[p].user[1].is_verified
                /\ resp[p].user[1].user_id = before[i].user_id
                /\ nodes = SetQuery(before, r.name, r.phone, r.hashed_password, TRUE)
         /\ \A i \in m :
              (m = {i} /\ full /\ before[i].is_verified) =>
                resp[p].outcome = "AlreadyExists"

\* C5: an upsert with incomplete data over the unverified User of an identity
\* fails with IncompleteUpgrade and leaves the store as it was
C5_IncompleteUpgrade ==
  \A p \in Procs :
    EndedAlone(p, "create_user") =>
      LET r == req[p]
          before == snap.nodes
          m == MatchUser(before, r.phone)
      IN \A i \in m :
           (/\ m = {i}
            /\ ~IsVerifiedInput(r.name, r.hashed_password)
            /\ ~before[i].is_verified) =>
             /\ resp[p].outcome = "IncompleteUpgrade"
             /\ nodes = before

\* C6: once a stored User is verified it stays verified, keeps its name and
\* password hash, and no other node is created for its phone number
C6_VerifiedIsFinal ==
  [][\A i \in DOMAIN nodes :
       nodes[i].is_verified =>
         /\ nodes'[i].is_verified
         /\ nodes'[i].name = nodes[i].name
         /\ nodes'[i].hashed_password = nodes[i].hashed_password
         /\ MatchUser(nodes', nodes[i].phonenumber)
              = MatchUser(nodes, nodes[i].phonenumber)]_vars

\* is_verified of a record agrees with its name and password hash
VerifiedIffComplete(u) ==
  u.is_verified <=> (Truthy(u.name) /\ Truthy(u.hashed_password))

\* C7: every User record, stored or returned by find or upsert, has
\* is_verified true exactly when its name and password hash are non-empty
C7_VerifiedIffComplete ==
  /\ \A i \in DOMAIN nodes : VerifiedIffComplete(nodes[i])
  /\ \A p \in Procs :
       resp[p].user # <<>> => VerifiedIffComplete(resp[p].user[1])

\* C8: connect quota accounting.  A connect that succeeds leaves the sender
\* with one remaining connection fewer and returns that number; between
\* requests a sender's remaining connections are the initial 3 less the
\* connects it made, so three connects to distinct users leave 0; a connect by
\* a sender with 0 left fails QuotaExhausted and creates no edge
C8_ConnectQuotaAccounting ==
  /\ \A p \in Procs :
       EndedAlone(p, "connect") =>
         LET s == req[p].phone
             before == Quotas(snap.nodes, s)
         IN /\ resp[p].outcome = "ok" =>
                 /\ Quotas(nodes, s) = {q - 1 : q \in before}
                 /\ Quotas(nodes, s) = {resp[p].value}
                 /\ req[p].receiver \in Initiated(s)
            /\ before = {0} =>
                 /\ resp[p].outcome = "QuotaExhausted"
                 /\ edges = snap.edges
  /\ Quiet =>
       \A s \in SeedPhones :
         Quotas(nodes, s) = {InitialConnections - Cardinality(Initiated(s))}

\* C8 witness: a sender that made three connects has 0 left and its next
\* connect has just been refused
C8_Witness ==
  \E p \in Procs :
    /\ EndedAlone(p, "connect")
    /\ resp[p].outcome = "QuotaExhausted"
    /\ Cardinality(Initiated(req[p].phone)) = InitialConnections
    /\ Quotas(nodes, req[p].phone) = {0}
    /\ req[p].receiver \notin Initiated(req[p].phone)
    /\ req[p].receiver # req[p].phone

\* the connect in slot p repeats an earlier connect of the same sender to the
\* same receiver that created their edge
RepeatsConnect(p) ==
  /\ EndedAlone(p, "connect")
  /\ <<req[p].phone, req[p].receiver>> \in newEdgeBy
  /\ DirectRows(snap.nodes, req[p].phone, req[p].receiver) # {}
  /\ DirectRows(snap.nodes, req[p].phone, req[p].receiver) \subseteq snap.edges

\* the first connect(A, B) succeeds, creates the edge and takes one from A's quota
FirstConnectCounts(p) ==
  (EndedAlone(p, "connect") /\ resp[p].outcome = "ok") =>
    /\ <<req[p].phone, req[p].receiver>> \in newEdgeBy
    /\ DirectRows(nodes, req[p].phone, req[p].receiver) \subseteq edges
    /\ DirectRows(snap.nodes, req[p].phone, req[p].receiver) \cap snap.edges = {}
    /\ Quotas(nodes, req[p].phone) = {q - 1 : q \in Quotas(snap.nodes, req[p].phone)}

\* C9 as stated: the second connect(A, B) fails AlreadyConnected, adds no
\* edge and leaves A's quota alone
C9_AsStated ==
  \A p \in Procs :
    /\ FirstConnectCounts(p)
    /\ RepeatsConnect(p) =>
         /\ resp[p].outcome = "AlreadyConnected"
         /\ edges = snap.edges
         /\ nodes = snap.nodes

\* C9 amended: the second connect(A, B) is refused, with AlreadyConnected
\* when A has connections left and with QuotaExhausted when the first connect
\* used A's last one; either way it adds no edge and leaves A's quota alone
C9_SecondConnectRefused ==
  \A p \in Procs :
    /\ FirstConnectCounts(p)
    /\ RepeatsConnect(p) =>
         /\ resp[p].outcome =
              IF Quotas(snap.nodes, req[p].phone) = {0}
              THEN "QuotaExhausted" ELSE "AlreadyConnected"
         /\ edges = snap.edges
         /\ nodes = snap.nodes

\* C9 witness: a repeated connect has just been refused as AlreadyConnected
C9_Witness ==
  \E p \in Procs :
    /\ RepeatsConnect(p)
    /\ resp[p].outcome = "AlreadyConnected"
    /\ Quotas(nodes, req[p].phone) = {InitialConnections - 1}

\* C10: from the start of a connect on, whether it succeeds or fails, the
\* remaining_connections of every User other than the sender are what they
\* were before it
C10_OnlySenderQuotaChanges ==
  \A p \in Procs :
    (req[p].op = "connect" /\ snap.alone /\ snap.by = p) =>
      /\ DOMAIN nodes = DOMAIN snap.nodes
      /\ \A i \in DOMAIN nodes :
           nodes[i].phonenumber # req[p].phone =>
             nodes[i].remaining_connections
               = snap.nodes[i].remaining_connections

\* C10 witness: a connect has succeeded and lowered the sender's quota while
\* its receiver exists
C10_Witness ==
  \E p \in Procs :
    /\ EndedAlone(p, "connect")
    /\ resp[p].outcome = "ok"
    /\ Quotas(nodes, req[p].phone) # Quotas(snap.nodes, req[p].phone)
    /\ MatchUser(nodes, req[p].receiver) # {}
    /\ req[p].receiver # req[p].phone

\* the outcomes of a connect that the route refuses before create_connection:
\* equal phone numbers (the ValueError of check_direct_connection, answered
\* 500), spent quota (405), receiver not found (400), already connected (400)
Rejections == {"ServerError", "QuotaExhausted", "NotFound", "AlreadyConnected"}

\* C11: a connect refused for equal phone numbers, spent quota, an absent
\* receiver or an existing connection leaves the edge set and every User
\* record, quotas included, as it found them
C11_RejectedConnectMutatesNothing ==
  \A p \in Procs :
    (EndedAlone(p, "connect") /\ resp[p].outcome \in Rejections) =>
      /\ nodes = snap.nodes
      /\ edges = snap.edges

\* a connect to a phone number without User is refused by a sender who has
\* connections and quota left
C11_Witness ==
  \E p \in Procs :
    /\ EndedAlone(p, "connect")
    /\ resp[p].outcome = "NotFound"
    /\ Initiated(req[p].phone) # {}
    /\ nodes = snap.nodes
    /\ edges = snap.edges

\* how a caller sees the ValueError the code raises for equal phone numbers:
\* the exception itself from a service function, a 500 from the connect route
InvalidArgument(op) == IF op = "connect" THEN "ServerError" ELSE "InvalidArgument"

\* C12: for every phone number A, with or without a User and whatever its
\* quota, direct(A,A), reachable(A,A), shortest_path(A,A) and connect(A,A)
\* all fail with InvalidArgument
C12_SelfLoopRejected ==
  \A p \in Procs :
    ( /\ pc[p] = "idle"
      /\ resp[p].outcome # "pending"
      /\ req[p].op \in {"direct", "reachable", "shortest_path", "connect"}
      /\ req[p].phone = req[p].receiver ) =>
      resp[p].outcome = InvalidArgument(req[p].op)

\* C13: when a connect has made its edge and its quota decrement then fails,
\* the edge stays, the caller is answered with an error and not a success,
\* and a retry of the same connect is refused AlreadyConnected, adding no
\* edge and taking no quota
C13_PartialFailureSurfaced ==
  \A p \in Procs :
    ( /\ pc[p] = "idle"
      /\ req[p].op = "connect"
      /\ resp[p].outcome = "ReturnedError" ) =>
      /\ DirectRows(nodes, req[p].phone, req[p].receiver) \subseteq edges
      /\ StatusOf(resp[p].outcome) >= 400
      /\ \A q \in Procs \ {p} :
           ( /\ EndedAlone(q, "connect")
             /\ req[q].phone = req[p].phone
             /\ req[q].receiver = req[p].receiver ) =>
             /\ resp[q].outcome = "AlreadyConnected"
             /\ nodes = snap.nodes
             /\ edges = snap.edges

\* C14: in every state of the store that a request can see, the relationship
\* A->B is there exactly when B->A is: the two are written by one query
C14_EdgeSymmetry ==
  \A e \in edges : <<e[2], e[1]>> \in edges

\* a connect about to look for the relationship between its two users, which
\* another request has written in the meantime, in both directions
C14_Witness ==
  \E p \in Procs :
    /\ pc[p] = "cc_direct"
    /\ \E e \in DirectRows(nodes, req[p].phone, req[p].receiver) :
         e \in edges /\ <<e[2], e[1]>> \in edges

\* the two relationships of a connection between the Users of two phone numbers
BothWays(ns, phone1, phone2) ==
  DirectRows(ns, phone1, phone2) \cup DirectRows(ns, phone2, phone1)

RECURSIVE WithinHops(_, _, _)
WithinHops(es, S, k) ==
  IF k = 0 THEN S
  ELSE WithinHops(es, S \cup UNION {Neighbours(es, n) : n \in S}, k - 1)

\* the nodes in the connected component of node i
Component(ns, es, i) == WithinHops(es, {i}, Len(ns))

\* the requests of kind op that have been answered
Answered(p, op) ==
  /\ pc[p] = "idle"
  /\ req[p].op = op
  /\ resp[p].outcome # "pending"

\* C16: for two Users a # b of one connected component, shortest_path(a, b)
\* returns summaries that start with a's and end with b's, each next one
\* joined to the one before by an edge, and no path has fewer hops
C16_ShortestPathCorrect ==
  \A p \in Procs :
    Answered(p, "shortest_path") =>
      \A i \in MatchUser(nodes, req[p].phone),
         j \in MatchUser(nodes, req[p].receiver) :
        (i # j /\ j \in Component(nodes, edges, i)) =>
          LET path == resp[p].path
              hops == Len(path) - 1
          IN /\ resp[p].outcome = "ok"
             /\ hops >= 1
             /\ path[1] = MinimalUser(nodes[i])
             /\ path[Len(path)] = MinimalUser(nodes[j])
             /\ \A k \in 1..hops :
                  \/ <<path[k].user_id, path[k + 1].user_id>> \in edges
                  \/ <<path[k + 1].user_id, path[k].user_id>> \in edges
             /\ j \notin WithinHops(edges, {i}, hops - 1)

\* on a chain A-B-C-D of four Users the path from one end to the other has
\* been returned: four summaries, three hops
C16_Witness ==
  \E p \in Procs :
    /\ Answered(p, "shortest_path")
    /\ resp[p].outcome = "ok"
    /\ Len(resp[p].path) = 4
    /\ Cardinality(edges) = 6
    /\ resp[p].path[1].phonenumber = req[p].phone
    /\ resp[p].path[4].phonenumber = req[p].receiver

\* C17: shortest_path(a, b) fails with NoPathFound, and returns no part of a
\* path, whenever a or b has no User or their Users are in different
\* connected components
C17_NoPathFound ==
  \A p \in Procs :
    ( /\ Answered(p, "shortest_path")
      /\ \A i \in MatchUser(nodes, req[p].phone),
            j \in MatchUser(nodes, req[p].receiver) :
           j \notin Component(nodes, edges, i) ) =>
      /\ resp[p].outcome = "NoPathFound"
      /\ resp[p].path = <<>>

\* NoPathFound has been answered for two Users that both have connections,
\* but none that joins them
C17_Witness ==
  \E p \in Procs :
    /\ Answered(p, "shortest_path")
    /\ resp[p].outcome = "NoPathFound"
    /\ \E i \in MatchUser(nodes, req[p].phone),
          j \in MatchUser(nodes, req[p].receiver) :
         /\ Neighbours(edges, i) # {}
         /\ Neighbours(edges, j) # {}
         /\ j \notin Component(nodes, edges, i)

\* some path of FRIENDS_WITH edges, of any length and direction, joins a User
\* of phone1 and a User of phone2
Joined(ns, es, phone1, phone2) ==
  \E i \in MatchUser(ns, phone1), j \in MatchUser(ns, phone2) :
    j \in Component(ns, es, i)

\* C18: for a # b, reachable(a, b) is true exactly when some path of
\* FRIENDS_WITH edges joins them, hence false when a or b has no User; it is
\* symmetric in a and b; and it is true exactly when shortest_path(a, b)
\* succeeds
C18_ReachableIffPath ==
  \A p \in Procs :
    (Answered(p, "reachable") /\ req[p].phone # req[p].receiver) =>
      LET a == req[p].phone
          b == req[p].receiver
      IN /\ resp[p].outcome = "ok"
         /\ resp[p].value = AsValue(Joined(nodes, edges, a, b))
         /\ (MatchUser(nodes, a) = {} \/ MatchUser(nodes, b) = {}) =>
              resp[p].value = 0
         /\ \A back \in check_connection(nodes, edges, b, a) :
              AsValue(back) = resp[p].value
         /\ \A found \in find_shortest_path(nodes, edges, a, b) :
              (found.outcome = "ok") <=> (resp[p].value = 1)

\* reachable has answered true for two Users that no edge joins directly
C18_Witness ==
  \E p \in Procs :
    /\ Answered(p, "reachable")
    /\ resp[p].value = 1
    /\ \E i \in MatchUser(nodes, req[p].phone),
          j \in MatchUser(nodes, req[p].receiver) :
         i # j /\ j \notin Neighbours(edges, i)

\* C19: the node set ego_network returns has no two entries with one
\* user_id, and its edge set has at most one entry per unordered pair of
\* endpoints: the stored A->B and B->A count once
C19_EgoDeduplicated ==
  \A p \in Procs :
    (Answered(p, "ego_network") /\ resp[p].outcome = "ok") =>
      /\ \A u, v \in resp[p].graph_nodes : u.user_id = v.user_id => u = v
      /\ \A e, f \in resp[p].graph_edges :
           {e[1], e[2]} = {f[1], f[2]} => e = f

\* the connections that lie on a walk of at most `hops` hops from node i, as
\* unordered pairs of endpoints
EdgesWithin(es, i, hops) ==
  {{e[1], e[2]} : e \in {x \in es : \/ x[1] \in WithinHops(es, {i}, hops - 1)
                                  \/ x[2] \in WithinHops(es, {i}, hops - 1)}}

\* C20: for a center with connections, ego_network(center, max_hops) returns
\* exactly the Users at most max_hops hops from the center, and one edge for
\* each connection on the way to them: on the chain A-B-C-D-E, for center A
\* and 2 hops, the nodes A, B, C and the edges (A,B), (B,C)
C20_EgoNetworkBound ==
  \A p \in Procs :
    (Answered(p, "ego_network") /\ resp[p].outcome = "ok") =>
      \A i \in MatchUser(nodes, req[p].phone) :
        Neighbours(edges, i) # {} =>
          /\ {u.user_id : u \in resp[p].graph_nodes}
               = {nodes[j].user_id : j \in WithinHops(edges, {i}, req[p].degrees)}
          /\ {{e[1], e[2]} : e \in resp[p].graph_edges}
               = EdgesWithin(edges, i, req[p].degrees)
          /\ Cardinality(resp[p].graph_edges)
               = Cardinality(EdgesWithin(edges, i, req[p].degrees))

\* C21: ego_network tells a missing center from an isolated one: NotFound when
\* the center has no User, empty node and edge sets without error when the
\* center's User has no connections
C21_MissingOrIsolatedCenter ==
  \A p \in Procs :
    (Answered(p, "ego_network") /\ req[p].degrees >= 1) =>
      /\ MatchUser(nodes, req[p].phone) = {} => resp[p].outcome = "NotFound"
      /\ ( /\ MatchUser(nodes, req[p].phone) # {}
           /\ \A i \in MatchUser(nodes, req[p].phone) : Neighbours(edges, i) = {} ) =>
           /\ resp[p].outcome = "ok"
           /\ resp[p].graph_nodes = {}
           /\ resp[p].graph_edges = {}

\* C22: for a User whose remaining_connections is 0, decrement fails with
\* QuotaExhausted and the stored remaining_connections is still 0 afterwards
C22_QuotaFloor ==
  \A p \in Procs :
    ( /\ EndedAlone(p, "decrement")
      /\ Quotas(snap.nodes, req[p].phone) = {0} ) =>
      /\ resp[p].outcome = "QuotaExhausted"
      /\ Quotas(nodes, req[p].phone) = {0}
      /\ nodes = snap.nodes

\* a decrement has been refused for a User who spent the quota on connects and
\* decrements before
C22_Witness ==
  \E p \in Procs :
    /\ EndedAlone(p, "decrement")
    /\ Quotas(snap.nodes, req[p].phone) = {0}
    /\ resp[p].outcome = "QuotaExhausted"
    /\ Initiated(req[p].phone) # {}

\* how a caller sees that the identity has no User: the 401 of
\* get_current_user from the connect route, NotFound from a service function
NotFound(op) == IF op = "connect" THEN "Unauthorized" ELSE "NotFound"

\* C23: for a phone number without User, remaining fails with NotFound and
\* returns no value, and decrement and connect for it fail with that error
\* and do not proceed
C23_RemainingNotFound ==
  \A p \in Procs :
    ( /\ pc[p] = "idle"
      /\ resp[p].outcome # "pending"
      /\ req[p].op \in {"remaining", "decrement", "connect"}
      /\ MatchUser(nodes, req[p].phone) = {} ) =>
      /\ resp[p].outcome = NotFound(req[p].op)
      /\ (snap.alone /\ snap.by = p) => (nodes = snap.nodes /\ edges = snap.edges)

\* the outcome of a connect that checks, in this order, equal phone numbers,
\* spent quota of the sender, absent receiver, existing direct edge
InOrder(self, spent, absent, connected) ==
  IF self THEN InvalidArgument("connect")
  ELSE IF spent THEN "QuotaExhausted"
  ELSE IF absent THEN "NotFound"
  ELSE IF connected THEN "AlreadyConnected"
  ELSE "ok"

\* C24: connect reports the failure of the earliest of the steps self-identity,
\* sender quota, receiver existence, direct edge: connect(A,A) by a sender
\* with quota 0 fails InvalidArgument and not QuotaExhausted, a connect by a
\* sender with quota 0 to an absent receiver fails QuotaExhausted and not
\* NotFound
C24_RejectionOrder ==
  \A p \in Procs :
    EndedAlone(p, "connect") =>
      resp[p].outcome =
        InOrder(req[p].phone = req[p].receiver,
                \E n \in Quotas(snap.nodes, req[p].phone) : n <= 0,
                MatchUser(snap.nodes, req[p].receiver) = {},
                /\ DirectRows(snap.nodes, req[p].phone, req[p].receiver) # {}
                /\ DirectRows(snap.nodes, req[p].phone, req[p].receiver)
                     \subseteq snap.edges)

\* C25: the ego network is the induced subgraph on its nodes: every
\* FRIENDS_WITH edge between two returned Users is among the returned edges,
\* and every returned edge has both endpoints among the returned nodes
C25_EgoInducedSubgraph ==
  \A p \in Procs :
    (Answered(p, "ego_network") /\ resp[p].outcome = "ok") =>
      LET ids == {u.user_id : u \in resp[p].graph_nodes}
      IN /\ \A e \in edges :
              (nodes[e[1]].user_id \in ids /\ nodes[e[2]].user_id \in ids) =>
                \/ <<nodes[e[1]].user_id, nodes[e[2]].user_id>> \in resp[p].graph_edges
                \/ <<nodes[e[2]].user_id, nodes[e[1]].user_id>> \in resp[p].graph_edges
         /\ \A e \in resp[p].graph_edges : e[1] \in ids /\ e[2] \in ids

\* the read operations
ReadOps == {"find", "remaining", "direct", "reachable", "shortest_path",
            "ego_network"}

\* C26: find, remaining, direct, reachable, shortest_path and ego_network
\* never change the store: after any of them, succeeded or failed, the User
\* records with all their fields and the edge set are what they were before
C26_ReadsChangeNothing ==
  \A p \in Procs, op \in ReadOps :
    EndedAlone(p, op) => (nodes = snap.nodes /\ edges = snap.edges)

\* a read has failed, for a phone number without User, on a store with Users
\* and edges
C26_Witness ==
  \E p \in Procs :
    /\ EndedAlone(p, "shortest_path")
    /\ resp[p].outcome = "NoPathFound"
    /\ MatchUser(nodes, req[p].receiver) = {}
    /\ edges # {}
    /\ nodes = snap.nodes
    /\ edges = snap.edges

RECURSIVE QuotaSpentBy(_, _)
QuotaSpentBy(ns, k) ==
  IF k = 0 THEN 0
  ELSE QuotaSpentBy(ns, k - 1) + (InitialConnections - ns[k].remaining_connections)

\* the logical edges: the unordered pairs of Users joined by a relationship
LogicalEdges(es) == {{e[1], e[2]} : e \in es}

\* C28: under any interleaving of connect requests, once they have ended, the
\* quota spent by all Users together equals the number of logical edges: no
\* logical edge is paid for twice
C28_QuotaConservation ==
  Quiet => QuotaSpentBy(nodes, Len(nodes)) = Cardinality(LogicalEdges(edges))
====
